---- MODULE Spec2Model ----
(***************************************************************************)
(* The conversation synchronizer of the UMarket messages page              *)
(* (frontend/pages/dashboard/orders.js, MessagesPage) together with the    *)
(* chat API helpers it calls (unnamed/part_004).                           *)
(*                                                                         *)
(* One action is one run-to-completion piece of JavaScript: an event       *)
(* handler up to its first await that really waits for the network, or the *)
(* continuation that runs when such an await resolves.  React state        *)
(* (useState) is a variable; a functional updater setX(prev => f(prev)) is *)
(* x' = f(x).  Calls in flight are kept in bags, one record per call.      *)
(***************************************************************************)
EXTENDS Bags, FiniteSets, Integers, Sequences, TLC

----------------------------------------------------------------------------
(* Bounds of the model *)
MaxOps    == 1
MaxEnsure == 2
MaxStamp  == 3      \* last-activity timestamps of the lists given to sortChats

(* Program constants *)
MAX_MESSAGES == 200
(* maxLength of the composer's textarea: 2000 in the source, counted here  *)
(* in the characters of Inputs                                             *)
maxLength == 4

(* null / undefined: identifiers and timestamps of the model are > 0,      *)
(* user and chat identifiers are non-empty strings                         *)
None   == 0
NoUser == ""
NoChat == ""
NoError == ""

Users == {"u1", "u2"}
(* identifiers ensureProfiles is asked for; nobody has the third one *)
ProfileIds == Users \cup {"u3"}
Chats == {"c1", "c2"}

(* chats rows of the system of record: c1 was opened by u1 on a listing of *)
(* u2, c2 by u2 on a listing of u1; both exist when the page is mounted.   *)
BuyerOf(c)  == IF c = "c1" THEN "u1" ELSE "u2"
SellerOf(c) == IF c = "c1" THEN "u2" ELSE "u1"
ChatCreatedAt == 1

(* Text typed in the composer, as sequences of characters *)
Inputs == { <<>>, <<" ">>, <<"h", "i">>, <<" ", "h", "i", " ">>,
            <<"h", "i", "h", "i", "h">> }
OtherBody == <<"y", "o">>

(* `optimistic-${Date.now()}`: a string no durable identifier equals.      *)
(* Durable identifiers are 1, 2, ...; the n-th submit is stamped OptBase+n *)
(* (two submits are separated by a network round trip, so Date.now()       *)
(* differs between them).                                                  *)
OptBase == 100
OptimisticId(n) == OptBase + n
IsOptimisticId(id) == id > OptBase

----------------------------------------------------------------------------
(* Pure helpers *)

Min(a, b) == IF a < b THEN a ELSE b

SeqMap(s, F(_)) == [i \in 1..Len(s) |-> F(s[i])]

Ids(list) == {list[i].id : i \in 1..Len(list)}

HasId(list, id) == \E i \in 1..Len(list) : list[i].id = id

(* String.prototype.trim *)
IsSpace(ch) == ch = " "

RECURSIVE TrimStart(_)
TrimStart(s) ==
  IF s = <<>> THEN <<>>
  ELSE IF IsSpace(Head(s)) THEN TrimStart(Tail(s)) ELSE s

RECURSIVE TrimEnd(_)
TrimEnd(s) ==
  IF s = <<>> THEN <<>>
  ELSE IF IsSpace(s[Len(s)]) THEN TrimEnd(SubSeq(s, 1, Len(s) - 1)) ELSE s

(* a text that keeps its blanks; Trim must differ from it *)
NoTrim(s) == s

Trim(s) == TrimEnd(TrimStart(s))

(* Array.prototype.sort with a comparator on one key is a stable sort:     *)
(* insertion behind every element whose key is not larger.                 *)
RECURSIVE InsertByCreated(_, _)
InsertByCreated(sorted, m) ==
  IF sorted = <<>> THEN <<m>>
  ELSE IF Head(sorted).created_at <= m.created_at
       THEN <<Head(sorted)>> \o InsertByCreated(Tail(sorted), m)
       ELSE <<m>> \o sorted

RECURSIVE sortMessagesFrom(_, _)
sortMessagesFrom(acc, rest) ==
  IF rest = <<>> THEN acc
  ELSE sortMessagesFrom(InsertByCreated(acc, Head(rest)), Tail(rest))

sortMessages(list) == sortMessagesFrom(<<>>, list)

RECURSIVE InsertByUpdated(_, _)
InsertByUpdated(sorted, c) ==
  IF sorted = <<>> THEN <<c>>
  ELSE IF Head(sorted).updatedAt >= c.updatedAt
       THEN <<Head(sorted)>> \o InsertByUpdated(Tail(sorted), c)
       ELSE <<c>> \o sorted

RECURSIVE sortChatsFrom(_, _)
sortChatsFrom(acc, rest) ==
  IF rest = <<>> THEN acc
  ELSE sortChatsFrom(InsertByUpdated(acc, Head(rest)), Tail(rest))

(* a projection that keeps the order it is given; sortChats must differ    *)
(* from it                                                                 *)
SameOrder(list) == list

(* sortChats, lines 473-479: the comparator looks at the timestamps only *)
sortChats(list) == sortChatsFrom(<<>>, list)

(* a bag with one more / one fewer copy of e *)
BagAdd(b, e) == b (+) SetToBag({e})
BagDel(b, e) == b (-) SetToBag({e})

----------------------------------------------------------------------------
(* State *)
VARIABLES
  user,            \* useAuth().user.id of the page
  chats,           \* useState chats: sequence of conversation records
  selectedChatId,  \* useState selectedChatId
  messagesMap,     \* useState messagesMap: chat id -> message window
  sending,         \* useState sending
  send,            \* closure of the handleSendMessage call in progress or last finished
  nSends,          \* accepted submits so far
  loads,           \* bag of loadMessages calls in flight
  marks,           \* bag of markChatAsRead calls awaiting markMessagesRead
  chatLoads,       \* bag of loadChats calls in flight
  channels,        \* chat ids of the realtime subscriptions that are active
  events,          \* realtime payloads queued for the handlers of the subscriptions
  chatError,       \* useState chatError
  messagesError,   \* useState messagesError
  nCalls,          \* sendChatMessage calls made so far
  serverMsgs,      \* chat_messages table, in insertion order
  receipts,        \* message_receipts of the viewer: message id -> read_at
  now,             \* wall clock of the browser
  skew,            \* wall clock of the database minus wall clock of the browser
  nOps,            \* clicks, submits and counterpart messages so far
  budget,          \* how many of them a behaviour may hold
  history,         \* what has happened so far: "late load", "opened", "rejected", "mark failed"
  profileCacheRef, \* useRef profileCacheRef.current: user id -> "missing" | "null" | "profile"
  profileCache,    \* useState profileCache
  ensures,         \* bag of ensureProfiles calls awaiting Promise.all
  nEnsure          \* ensureProfiles calls so far

(* State of the other pages and of the auth context *)
VARIABLES
  authUser,        \* AuthContext useState user (with session): the session exposed
  authLoading,     \* AuthContext useState loading
  supabaseSession, \* the session the Supabase client holds
  authEvents,      \* sessions queued for the onAuthStateChange callback
  authTasks,       \* bag of loadInitialSession / callback runs at an await
  nSignIns,        \* sign-ins so far
  orderRow,        \* the Transactions row of one order in the system of record
  orders,          \* role -> the order as that side's DashboardOrders holds it
  confirming,      \* role -> DashboardOrders useState confirming[order.id]
  confirms,        \* role -> the handleConfirm call of that side: its position
  orderClock,      \* time of the system of record for confirmation timestamps
  listing,         \* ListingDetail useState listing
  listingRow,      \* the listing row in the system of record
  orderSubmitting, \* ListingDetail useState orderSubmitting
  orderError,      \* ListingDetail useState orderError
  purchase,        \* position of the handleRequestPurchase call in progress
  nPurchases       \* purchase requests so far, of this page and of other buyers

authVars  == <<authUser, authLoading, supabaseSession, authEvents, authTasks, nSignIns>>
orderVars == <<orders, orderRow, confirming, confirms, orderClock>>
itemVars  == <<listing, listingRow, orderSubmitting, orderError, purchase, nPurchases>>
pageVars  == <<authVars, orderVars, itemVars>>

msgVars  == <<user, chats, selectedChatId, messagesMap, sending, send, nSends,
              loads, marks, chatLoads, channels, events, serverMsgs, receipts,
              now, skew, nOps, budget, history, chatError, messagesError, nCalls>>
profVars == <<profileCacheRef, profileCache, ensures, nEnsure>>
vars     == <<user, chats, selectedChatId, messagesMap, sending, send, nSends,
              loads, marks, chatLoads, channels, events, serverMsgs, receipts,
              now, skew, nOps, budget, history, chatError, messagesError, nCalls,
              profileCacheRef, profileCache, ensures, nEnsure, pageVars>>

----------------------------------------------------------------------------
(* Records *)

NoMessage == [id |-> None, body |-> <<>>, sender_id |-> NoUser, created_at |-> None]

NoSend == [state |-> "none", chat |-> NoChat, optimisticId |-> None, body |-> <<>>,
           timestamp |-> None, savedId |-> None, echoed |-> FALSE]

(* a chat_messages row as the page holds it *)
Row(id, c, sender, body, created) ==
  [id |-> id, chat_id |-> c, sender_id |-> sender, body |-> body,
   created_at |-> created, read_at |-> None, optimistic |-> FALSE,
   sendError |-> FALSE]

(* `{}`, the record a realtime payload carries where it has no row: every *)
(* field of it is undefined                                                *)
EmptyRow == Row(None, NoChat, NoUser, <<>>, None)

LastMessageOf(m) ==
  [id |-> m.id, body |-> m.body, sender_id |-> m.sender_id, created_at |-> m.created_at]

ClientNow == now
ServerNow == now + skew

(* time passes between two events of the page or of the system of record *)
Clock == {now + 1}

----------------------------------------------------------------------------
(* The system of record, as the API helpers of part_004 read it *)

OtherOf(c) == IF BuyerOf(c) = user THEN SellerOf(c) ELSE BuyerOf(c)

(* fetchChatMessages: rows of the chat, created_at ascending, at most `limit` *)
fetchChatMessages(c, limit) ==
  LET rows == sortMessages(SelectSeq(serverMsgs, LAMBDA m : m.chat_id = c))
  IN  SubSeq(rows, 1, Min(Len(rows), limit))

(* fetchMessageReceipts: message id -> read_at of the viewer's receipts;   *)
(* `receipts[id] || null` is receipts[id] here, None standing for no row   *)
fetchMessageReceipts(id) == IF id \in DOMAIN receipts THEN receipts[id] ELSE None

(* the chat's newest message (chat_messages ordered by created_at          *)
(* descending, limit 1), None-record when it has none                      *)
ServerLastMessage(c) ==
  LET rows == fetchChatMessages(c, MAX_MESSAGES)
  IN  IF rows = <<>> THEN NoMessage ELSE LastMessageOf(rows[Len(rows)])

(* chats.updated_at follows the chat's newest message *)
ServerUpdatedAt(c) ==
  LET m == ServerLastMessage(c)
  IN  IF m.id = None THEN ChatCreatedAt ELSE m.created_at

(* normalizeChatRow plus the lastMessageReadAt that loadChats adds *)
EnrichedChat(c) ==
  LET m == ServerLastMessage(c)
  IN  [id |-> c, buyerId |-> BuyerOf(c), sellerId |-> SellerOf(c),
       updatedAt |-> ServerUpdatedAt(c), lastMessage |-> m,
       lastMessageReadAt |-> IF m.id = None THEN None ELSE fetchMessageReceipts(m.id)]

(* fetchChats: the viewer's chats, updated_at descending *)
fetchChats == sortChats(<<EnrichedChat("c1"), EnrichedChat("c2")>>)

(* loadMessages, lines 697-700 *)
Decorated(c) ==
  SeqMap(fetchChatMessages(c, MAX_MESSAGES),
         LAMBDA m : [m EXCEPT !.read_at = fetchMessageReceipts(m.id)])

(* an INSERT on chat_messages reaches the page only through the channel    *)
(* subscribed with filter chat_id = c                                      *)
Publish(row) ==
  IF row.chat_id \in channels
  THEN Append(events, [eventType |-> "INSERT", new |-> row, old |-> EmptyRow,
                       channel |-> row.chat_id])
  ELSE events

(* decoratedChats, lines 564-578: the conversation list as displayed; the  *)
(* fields it adds to a conversation play no part in the order              *)
decoratedChats == IF user = NoUser THEN <<>> ELSE sortChats(chats)

----------------------------------------------------------------------------
(* Receipt tracking *)

(* an unread test that forgets who sent the message; isUnread must      *)
(* differ from it                                                        *)
NoReadAt(msg) == msg.read_at = None

(* markChatAsRead line 604 *)
isUnread(msg) == msg.sender_id # user /\ msg.read_at = None

(* the conversation list's unread dot, lines 1020-1023 *)
hasUnread(chat) ==
  /\ chat.lastMessage.id # None
  /\ chat.lastMessage.sender_id # user
  /\ chat.lastMessageReadAt = None

(* a selection that takes every entry of the list; unreadMessages must   *)
(* differ from it                                                        *)
AllMessages(list) == list

(* markChatAsRead line 604 *)
unreadMessages(list) == SelectSeq(list, isUnread)

(* markChatAsRead up to its await: the calls it adds to those in flight *)
(* (`from` names the caller: "select", "load" or "event")                   *)
markChatAsRead(chatId, list, from) ==
  IF user = NoUser \/ chatId = NoChat THEN EmptyBag
  ELSE IF list = <<>> THEN EmptyBag
  ELSE IF unreadMessages(list) = <<>> THEN EmptyBag
  ELSE SetToBag({[chat |-> chatId, list |-> list, timestamp |-> ClientNow, from |-> from]})

(* a write-back that stamps nothing; updatedList must differ from it *)
SameList(list, timestamp) == list

(* markChatAsRead lines 615-619 *)
updatedList(list, timestamp) ==
  SeqMap(list, LAMBDA msg :
    IF msg.id \in Ids(unreadMessages(list))
    THEN [msg EXCEPT !.read_at = timestamp] ELSE msg)

(* markChatAsRead lines 620-623 *)
WriteBack(mm, chatId, list) == [mm EXCEPT ![chatId] = list]

(* markChatAsRead lines 624-636 *)
MarkChatsRead(cs, chatId, unread, timestamp) ==
  SeqMap(cs, LAMBDA chat :
    IF chat.id = chatId
    THEN [chat EXCEPT !.lastMessageReadAt =
            IF chat.lastMessage.id # None /\ chat.lastMessage.id \in Ids(unread)
            THEN timestamp ELSE chat.lastMessageReadAt]
    ELSE chat)

(* markMessagesRead: upsert of one receipt per id *)
markMessagesRead(ids, timestamp) ==
  [id \in DOMAIN receipts |-> IF id \in ids THEN timestamp ELSE receipts[id]]

----------------------------------------------------------------------------
(* Auth context: AuthProvider of context/AuthContext.js.  An email address *)
(* is the sequence of its characters; a session is known by the email of   *)
(* its user, which Supabase leaves out for a user without one              *)
(* (newSession?.user?.email ?? '').                                        *)

MaxSignIns == 2

NoSession == [present |-> FALSE, email |-> <<>>]
SessionOf(email) == [present |-> TRUE, email |-> email]

StudentEmail == <<"a","@","u","m","a","s","s",".","e","d","u">>
Emails ==
  { StudentEmail,
    <<"A","@","U","M","A","S","S",".","E","D","U">>,
    <<"a","@","c","s",".","u","m","a","s","s",".","e","d","u">>,
    <<"a","@","g","m","a","i","l",".","c","o","m">>,
    <<>> }

Sessions == {SessionOf(e) : e \in Emails}

(* String.prototype.toLowerCase on the letters the addresses use *)
LowerOf(ch) ==
  CASE ch = "A" -> "a" [] ch = "D" -> "d" [] ch = "E" -> "e" [] ch = "M" -> "m"
    [] ch = "S" -> "s" [] ch = "U" -> "u" [] OTHER -> ch

toLowerCase(str) == [i \in DOMAIN str |-> LowerOf(str[i])]

endsWith(str, suffix) ==
  /\ Len(str) >= Len(suffix)
  /\ SubSeq(str, Len(str) - Len(suffix) + 1, Len(str)) = suffix

UmassSuffix == <<"@","u","m","a","s","s",".","e","d","u">>

(* isUmassEmail, lines 6-8 *)
isUmassEmail(email) == endsWith(toLowerCase(email), UmassSuffix)

(* the test of lines 91 and 110: the session is to be signed out *)
Unwelcome(session) ==
  session.present /\ session.email # <<>> /\ ~isUmassEmail(session.email)

(* a sign-in completes in the Supabase client (Google OAuth, a restored or *)
(* refreshed session): the client holds the session and tells the callback *)
SignIn(s) ==
  /\ nSignIns < MaxSignIns
  /\ supabaseSession' = s
  /\ authEvents' = Append(authEvents, s)
  /\ nSignIns' = nSignIns + 1
  /\ UNCHANGED <<authUser, authLoading, authTasks>>
  /\ UNCHANGED <<msgVars, profVars, orderVars, itemVars>>

(* loadInitialSession, lines 80-104: getSession is answered *)
LoadInitialSession(t, error) ==
  /\ t.kind = "initial"
  /\ t.pc = "getSession"
  /\ IF error
     THEN /\ authUser' = NoSession
          /\ authLoading' = FALSE
          /\ authTasks' = BagDel(authTasks, t)
     ELSE IF Unwelcome(supabaseSession)
     THEN /\ authTasks' = BagAdd(BagDel(authTasks, t), [t EXCEPT !.pc = "signOut"])
          /\ UNCHANGED <<authUser, authLoading>>
     ELSE /\ authUser' = supabaseSession
          /\ authLoading' = FALSE
          /\ authTasks' = BagDel(authTasks, t)
  /\ UNCHANGED <<supabaseSession, authEvents, nSignIns>>
  /\ UNCHANGED <<msgVars, profVars, orderVars, itemVars>>

(* the onAuthStateChange callback, lines 108-121, up to its await or end *)
AuthStateChange ==
  /\ authEvents # <<>>
  /\ LET newSession == Head(authEvents)
     IN  IF Unwelcome(newSession)
         THEN /\ authTasks' = BagAdd(authTasks, [kind |-> "change", pc |-> "signOut"])
              /\ UNCHANGED <<authUser, authLoading>>
         ELSE /\ authUser' = newSession
              /\ authLoading' = FALSE
              /\ UNCHANGED authTasks
  /\ authEvents' = Tail(authEvents)
  /\ UNCHANGED <<supabaseSession, nSignIns>>
  /\ UNCHANGED <<msgVars, profVars, orderVars, itemVars>>

(* `await supabase.auth.signOut()` returns: the client has dropped its     *)
(* session and told the callback; lines 94-95 and 113-115 follow           *)
SignOutDone(t) ==
  /\ t.pc = "signOut"
  /\ supabaseSession' = NoSession
  /\ authEvents' = Append(authEvents, NoSession)
  /\ authUser' = NoSession
  /\ authLoading' = FALSE
  /\ authTasks' = BagDel(authTasks, t)
  /\ UNCHANGED nSignIns
  /\ UNCHANGED <<msgVars, profVars, orderVars, itemVars>>

NextAuth ==
  \/ \E s \in Sessions : SignIn(s)
  \/ \E t \in BagToSet(authTasks), error \in BOOLEAN : LoadInitialSession(t, error)
  \/ AuthStateChange
  \/ \E t \in BagToSet(authTasks) : SignOutDone(t)

(* AuthProvider has just been mounted: the session effect has run, the     *)
(* client holds no session or one restored from storage and announces it   *)
(* to the callback                                                         *)
AuthMounted ==
  /\ authUser = NoSession
  /\ authLoading = TRUE
  /\ supabaseSession \in {NoSession} \cup Sessions
  /\ authEvents = <<supabaseSession>>
  /\ authTasks = SetToBag({[kind |-> "initial", pc |-> "getSession"]})
  /\ nSignIns = 0

(* the auth context while another page is looked at: the student is       *)
(* signed in and nothing is in flight                                      *)
AuthIdle ==
  /\ authUser = SessionOf(StudentEmail)
  /\ authLoading = FALSE
  /\ supabaseSession = SessionOf(StudentEmail)
  /\ authEvents = <<>>
  /\ authTasks = EmptyBag
  /\ nSignIns = 0

----------------------------------------------------------------------------
(* Transactions dashboard: DashboardOrders of pages/dashboard/orders.js.   *)
(* One order, seen from the buyer's dashboard and from the seller's.       *)

Roles == {"buyer", "seller"}

NewOrder == [buyer_confirmed |-> FALSE, seller_confirmed |-> FALSE,
             buyer_confirmed_at |-> None, seller_confirmed_at |-> None]

NoConfirm == [pc |-> "none", updated |-> NewOrder]

(* a status that asks who confirmed first: complete only when the buyer   *)
(* did; deriveStatus must differ from it                                  *)
StatusByFirst(order) ==
  IF order.buyer_confirmed /\ order.seller_confirmed
  THEN (IF order.buyer_confirmed_at < order.seller_confirmed_at
        THEN "complete" ELSE "seller_confirmed")
  ELSE IF order.buyer_confirmed THEN "buyer_confirmed"
  ELSE IF order.seller_confirmed THEN "seller_confirmed"
  ELSE "pending_meetup"

(* deriveStatus, lines 17-28 *)
deriveStatus(order) ==
  IF order.buyer_confirmed /\ order.seller_confirmed THEN "complete"
  ELSE IF order.buyer_confirmed THEN "buyer_confirmed"
  ELSE IF order.seller_confirmed THEN "seller_confirmed"
  ELSE "pending_meetup"

(* OrderList lines 56-57 *)
isBuyerList(role) == role = "buyer"
awaitingConfirmation(order, role) ==
  IF isBuyerList(role) THEN ~order.buyer_confirmed ELSE ~order.seller_confirmed

(* OrderList lines 82-90: the confirm button is rendered, and not disabled *)
ConfirmOffered(role) == awaitingConfirmation(orders[role], role)
ConfirmEnabled(role) == ConfirmOffered(role) /\ ~confirming[role]

(* POST /orders/{id}/confirm-item or confirm-payment in the system of      *)
(* record: the side's confirmation and its time are recorded once          *)
Confirmed(row, role, t) ==
  IF isBuyerList(role)
  THEN (IF row.buyer_confirmed THEN row
        ELSE [row EXCEPT !.buyer_confirmed = TRUE, !.buyer_confirmed_at = t])
  ELSE (IF row.seller_confirmed THEN row
        ELSE [row EXCEPT !.seller_confirmed = TRUE, !.seller_confirmed_at = t])

(* fetchOrders, lines 138-160: the dashboard of `role` is (re)loaded *)
FetchOrders(role) ==
  /\ confirms[role].pc = "none"
  /\ orders[role] # orderRow
  /\ orders' = [orders EXCEPT ![role] = orderRow]
  /\ UNCHANGED <<orderRow, confirming, confirms, orderClock>>
  /\ UNCHANGED <<msgVars, profVars, authVars, itemVars>>

(* handleConfirm up to `await apiFetch`, lines 162-172 *)
HandleConfirm(role) ==
  /\ ConfirmEnabled(role)
  /\ confirms[role].pc = "none"
  /\ confirming' = [confirming EXCEPT ![role] = TRUE]
  /\ confirms' = [confirms EXCEPT ![role] = [pc |-> "sent", updated |-> NewOrder]]
  /\ UNCHANGED <<orders, orderRow, orderClock>>
  /\ UNCHANGED <<msgVars, profVars, authVars, itemVars>>

(* the request is served by the system of record *)
ConfirmSaved(role) ==
  /\ confirms[role].pc = "sent"
  /\ orderRow' = Confirmed(orderRow, role, orderClock)
  /\ orderClock' = IF orderRow' # orderRow THEN orderClock + 1 ELSE orderClock
  /\ confirms' = [confirms EXCEPT ![role] = [pc |-> "saved", updated |-> orderRow']]
  /\ UNCHANGED <<orders, confirming>>
  /\ UNCHANGED <<msgVars, profVars, authVars, itemVars>>

(* apiFetch returns `updated`: lines 178-184, 188 *)
ConfirmResolve(role) ==
  /\ confirms[role].pc = "saved"
  /\ orders' = [orders EXCEPT ![role] = confirms[role].updated]
  /\ confirming' = [confirming EXCEPT ![role] = FALSE]
  /\ confirms' = [confirms EXCEPT ![role] = NoConfirm]
  /\ UNCHANGED <<orderRow, orderClock>>
  /\ UNCHANGED <<msgVars, profVars, authVars, itemVars>>

(* apiFetch throws, before or after the system of record has served the   *)
(* request: lines 185-188                                                  *)
ConfirmReject(role) ==
  /\ confirms[role].pc \in {"sent", "saved"}
  /\ confirming' = [confirming EXCEPT ![role] = FALSE]
  /\ confirms' = [confirms EXCEPT ![role] = NoConfirm]
  /\ UNCHANGED <<orders, orderRow, orderClock>>
  /\ UNCHANGED <<msgVars, profVars, authVars, itemVars>>

NextOrders ==
  \/ \E role \in Roles : FetchOrders(role)
  \/ \E role \in Roles : HandleConfirm(role)
  \/ \E role \in Roles : ConfirmSaved(role)
  \/ \E role \in Roles : ConfirmResolve(role)
  \/ \E role \in Roles : ConfirmReject(role)

(* both dashboards show an order that was just placed *)
OrdersIdle ==
  /\ orderRow = NewOrder
  /\ orders = [role \in Roles |-> NewOrder]
  /\ confirming = [role \in Roles |-> FALSE]
  /\ confirms = [role \in Roles |-> NoConfirm]
  /\ orderClock = 1

----------------------------------------------------------------------------
(* Listing page: ListingDetail of pages/items/[id].js, looked at by a      *)
(* signed-in student who is not the seller.                                *)

MaxQuantity  == 2
MaxPurchases == 2

(* a listing row without a quantity (null) *)
NoQuantity == -1

NoListing == [present |-> FALSE, quantity |-> NoQuantity, sold |-> FALSE]

Max(a, b) == IF a >= b THEN a ELSE b

(* line 170: listing?.quantity ?? 1 *)
quantity == IF ~listing.present \/ listing.quantity = NoQuantity THEN 1 ELSE listing.quantity

(* lines 171-172, for a viewer who is not the owner *)
isSoldOut == (listing.present /\ listing.sold) \/ quantity <= 0
canBuy == ~isSoldOut

(* an update that takes one off and leaves the sold flag alone;           *)
(* AfterPurchase must differ from it                                      *)
DecrementOnly(prev) ==
  IF ~prev.present THEN prev
  ELSE [prev EXCEPT !.quantity = IF prev.quantity # NoQuantity
                                 THEN Max(prev.quantity - 1, 0) ELSE 0]

(* the setListing updater of lines 275-284 *)
AfterPurchase(prev) ==
  IF ~prev.present THEN prev
  ELSE LET nextQuantity == IF prev.quantity # NoQuantity
                           THEN Max(prev.quantity - 1, 0) ELSE 0
       IN  [prev EXCEPT !.quantity = nextQuantity,
                        !.sold = IF nextQuantity = 0 THEN TRUE ELSE prev.sold]

(* POST /orders in the system of record: quantities decrement and the     *)
(* listing is marked sold when inventory reaches zero                     *)
RowSoldOut(row) == row.sold \/ (row.quantity # NoQuantity /\ row.quantity <= 0)
RowAfterOrder(row) ==
  LET q == IF row.quantity = NoQuantity THEN 0 ELSE Max(row.quantity - 1, 0)
  IN  [row EXCEPT !.quantity = q, !.sold = IF q = 0 THEN TRUE ELSE row.sold]

(* fetchListing, lines 44-56: GET /listings/:id is answered *)
FetchListing ==
  /\ listing # [listingRow EXCEPT !.present = TRUE]
  /\ listing' = [listingRow EXCEPT !.present = TRUE]
  /\ UNCHANGED <<listingRow, orderSubmitting, orderError, purchase, nPurchases>>
  /\ UNCHANGED <<msgVars, profVars, authVars, orderVars>>

(* handleRequestPurchase up to `await apiFetch`, lines 253-267; the button *)
(* is rendered while canBuy and disabled while orderSubmitting             *)
HandleRequestPurchase ==
  /\ listing.present
  /\ canBuy
  /\ ~orderSubmitting
  /\ nPurchases < MaxPurchases
  /\ orderSubmitting' = TRUE
  /\ orderError' = NoError
  /\ purchase' = "sent"
  /\ nPurchases' = nPurchases + 1
  /\ UNCHANGED <<listing, listingRow>>
  /\ UNCHANGED <<msgVars, profVars, authVars, orderVars>>

(* the system of record takes the order, or refuses it for a listing that  *)
(* is sold out                                                             *)
PurchaseSaved ==
  /\ purchase = "sent"
  /\ IF RowSoldOut(listingRow)
     THEN /\ purchase' = "refused"
          /\ UNCHANGED listingRow
     ELSE /\ purchase' = "saved"
          /\ listingRow' = RowAfterOrder(listingRow)
  /\ UNCHANGED <<listing, orderSubmitting, orderError, nPurchases>>
  /\ UNCHANGED <<msgVars, profVars, authVars, orderVars>>

(* apiFetch returns: lines 273-284, 288 *)
PurchaseResolve ==
  /\ purchase = "saved"
  /\ listing' = AfterPurchase(listing)
  /\ orderSubmitting' = FALSE
  /\ purchase' = "done"
  /\ UNCHANGED <<listingRow, orderError, nPurchases>>
  /\ UNCHANGED <<msgVars, profVars, authVars, orderVars>>

(* apiFetch throws: lines 285-288 *)
PurchaseReject ==
  /\ purchase \in {"sent", "refused"}
  /\ orderError' = "error"
  /\ orderSubmitting' = FALSE
  /\ purchase' = "failed"
  /\ UNCHANGED <<listing, listingRow, nPurchases>>
  /\ UNCHANGED <<msgVars, profVars, authVars, orderVars>>

(* another student buys one *)
OtherBuys ==
  /\ nPurchases < MaxPurchases
  /\ ~RowSoldOut(listingRow)
  /\ listingRow' = RowAfterOrder(listingRow)
  /\ nPurchases' = nPurchases + 1
  /\ UNCHANGED <<listing, orderSubmitting, orderError, purchase>>
  /\ UNCHANGED <<msgVars, profVars, authVars, orderVars>>

NextItem ==
  \/ FetchListing
  \/ HandleRequestPurchase
  \/ PurchaseSaved
  \/ PurchaseResolve
  \/ PurchaseReject
  \/ OtherBuys

(* the page has just been mounted for some listing *)
ItemMounted ==
  /\ listing = NoListing
  /\ listingRow \in [present : {TRUE}, quantity : {NoQuantity} \cup 0..MaxQuantity,
                     sold : BOOLEAN]
  /\ orderSubmitting = FALSE
  /\ orderError = NoError
  /\ purchase = "none"
  /\ nPurchases = 0

(* no listing page is open *)
ItemIdle ==
  /\ listing = NoListing
  /\ listingRow = [present |-> TRUE, quantity |-> 1, sold |-> FALSE]
  /\ orderSubmitting = FALSE
  /\ orderError = NoError
  /\ purchase = "none"
  /\ nPurchases = 0

OtherPagesIdle == AuthIdle /\ OrdersIdle /\ ItemIdle

----------------------------------------------------------------------------
(* The page has just been mounted for a signed-in user: the loadChats      *)
(* effect has run.  The counterpart of c1 wrote one message before.  The   *)
(* database clock is either the browser's or Skew ticks ahead of it.       *)
InitRest(ops) ==
  /\ user = "u1"
  /\ skew \in {0, 2}
  /\ selectedChatId = NoChat
  /\ sending = FALSE
  /\ send = NoSend
  /\ nSends = 0
  /\ loads = EmptyBag
  /\ marks = EmptyBag
  /\ chatLoads = SetToBag({[pc |-> "fetch", auto |-> TRUE, data |-> <<>>]})
  /\ channels = {}
  /\ events = <<>>
  /\ chatError = NoError
  /\ messagesError = NoError
  /\ nCalls = 0
  /\ serverMsgs = << Row(1, "c1", "u2", OtherBody, 1 + skew) >>
  /\ receipts = [id \in 1..(ops + 1) |-> None]
  /\ now = 1
  /\ nOps = 0
  /\ budget = ops
  /\ history = {}
  /\ profileCacheRef = [id \in ProfileIds |-> IF id = user THEN "profile" ELSE "missing"]
  /\ profileCache = [id \in ProfileIds |-> IF id = user THEN "profile" ELSE "missing"]
  /\ ensures = EmptyBag
  /\ nEnsure = 0

InitWith(ops) ==
  /\ chats = <<>>
  /\ messagesMap = [c \in Chats |-> <<>>]
  /\ InitRest(ops)
  /\ OtherPagesIdle

(* mounts of the other pages, with the messages page at rest *)
InitAuth   == chats = <<>> /\ messagesMap = [c \in Chats |-> <<>>] /\ InitRest(MaxOps)
              /\ AuthMounted /\ OrdersIdle /\ ItemIdle
InitOrders == chats = <<>> /\ messagesMap = [c \in Chats |-> <<>>] /\ InitRest(MaxOps)
              /\ AuthIdle /\ OrdersIdle /\ ItemIdle
InitItem   == chats = <<>> /\ messagesMap = [c \in Chats |-> <<>>] /\ InitRest(MaxOps)
              /\ AuthIdle /\ OrdersIdle /\ ItemMounted

Init     == InitWith(MaxOps)
InitDeep == InitWith(MaxOps + 1)

----------------------------------------------------------------------------
(* Conversation list: loadChats *)

(* a loadChats call created in a render whose selectedChatId is sel *)
NewChatLoad(sel) == [pc |-> "fetch", auto |-> sel = NoChat, data |-> <<>>]
NewLoad(c)  == [chat |-> c, pc |-> "fetch", data |-> <<>>]

(* fetchChats and fetchMessageReceipts have read the tables *)
LoadChatsFetch(t) ==
  /\ t.pc = "fetch"
  /\ chatLoads' = BagAdd(BagDel(chatLoads, t), [t EXCEPT !.pc = "resp", !.data = fetchChats])
  /\ UNCHANGED <<user, chats, selectedChatId, messagesMap, sending, send, nSends,
                 loads, marks, channels, events, serverMsgs, receipts, now, skew, nOps, budget, history>>
  /\ UNCHANGED <<chatError, messagesError, nCalls>>
  /\ UNCHANGED <<profVars, pageVars>>

(* fetchChats throws: setChatError *)
LoadChatsFail(t) ==
  /\ t.pc = "fetch"
  /\ chatLoads' = BagDel(chatLoads, t)
  /\ UNCHANGED <<user, chats, selectedChatId, messagesMap, sending, send, nSends,
                 loads, marks, channels, events, serverMsgs, receipts, now, skew, nOps, budget, history>>
  /\ chatError' = "error"
  /\ UNCHANGED <<messagesError, nCalls>>
  /\ UNCHANGED <<profVars, pageVars>>

(* setChats(enriched); then the call waits in ensureProfiles, and only a   *)
(* call made while nothing was selected does anything after that wait      *)
LoadChatsApply(t) ==
  /\ t.pc = "resp"
  /\ chats' = t.data
  /\ chatLoads' = IF t.auto THEN BagAdd(BagDel(chatLoads, t), [t EXCEPT !.pc = "ensure"])
                  ELSE BagDel(chatLoads, t)
  /\ UNCHANGED <<user, selectedChatId, messagesMap, sending, send, nSends,
                 loads, marks, channels, events, serverMsgs, receipts, now, skew, nOps, budget, history>>
  /\ UNCHANGED <<chatError, messagesError, nCalls>>
  /\ UNCHANGED <<profVars, pageVars>>

(* unsubscribeFromChannel, called by the cleanup of the subscription       *)
(* effect with the channel that effect had subscribed                      *)
KeepChannel(chs, ch) == chs

unsubscribeFromChannel(chs, ch) == chs \ {ch}

(* subscribeToChatMessages: `if (!chatId) return null` *)
subscribeToChatMessages(chs, chatId) ==
  IF chatId = NoChat THEN chs ELSE chs \cup {chatId}

(* what React runs after a render in which selectedChatId changed to c:    *)
(* the subscription effect (cleanup, loadMessages, subscribe) and, because *)
(* loadChats is re-created, the loadChats effect                           *)
SelectionEffects(c, ls) ==
  /\ loads' = BagAdd(ls, NewLoad(c))
  /\ messagesError' = NoError
  /\ channels' = subscribeToChatMessages(unsubscribeFromChannel(channels, selectedChatId), c)
  /\ events' = <<>>

(* loadChats lines 660-667: select the first conversation of `enriched` *)
LoadChatsAutoSelect(t) ==
  /\ t.pc = "ensure"
  /\ LET first == t.data[1].id
     IN  IF t.data # <<>> /\ first # selectedChatId
         THEN /\ selectedChatId' = first
              /\ SelectionEffects(first, loads)
              /\ chatLoads' = BagAdd(BagDel(chatLoads, t), NewChatLoad(first))
              /\ chatError' = NoError
         ELSE /\ chatLoads' = BagDel(chatLoads, t)
              /\ UNCHANGED <<selectedChatId, loads, channels, events,
                             chatError, messagesError>>
  /\ UNCHANGED <<user, chats, messagesMap, sending, send, nSends,
                 marks, serverMsgs, receipts, now, skew, nOps, budget, history>>
  /\ UNCHANGED nCalls
  /\ UNCHANGED <<profVars, pageVars>>

----------------------------------------------------------------------------
(* Bulk load of a window: loadMessages *)

(* a load that writes to whichever conversation is open; ApplyLoad must *)
(* differ from it                                                        *)
ApplyToOpen(mm, chatId, decorated) == [mm EXCEPT ![selectedChatId] = decorated]

(* loadMessages lines 701-704 *)
ApplyLoad(mm, chatId, decorated) == [mm EXCEPT ![chatId] = decorated]

LoadMessagesFetch(t) ==
  /\ t.pc = "fetch"
  /\ loads' = BagAdd(BagDel(loads, t), [t EXCEPT !.pc = "resp", !.data = Decorated(t.chat)])
  /\ UNCHANGED <<user, chats, selectedChatId, messagesMap, sending, send, nSends,
                 marks, chatLoads, channels, events, serverMsgs, receipts, now, skew, nOps, budget, history>>
  /\ UNCHANGED <<chatError, messagesError, nCalls>>
  /\ UNCHANGED <<profVars, pageVars>>

(* fetchChatMessages throws: setMessagesError *)
LoadMessagesFail(t) ==
  /\ t.pc = "fetch"
  /\ loads' = BagDel(loads, t)
  /\ UNCHANGED <<user, chats, selectedChatId, messagesMap, sending, send, nSends,
                 marks, chatLoads, channels, events, serverMsgs, receipts, now, skew, nOps, budget, history>>
  /\ messagesError' = "error"
  /\ UNCHANGED <<chatError, nCalls>>
  /\ UNCHANGED <<profVars, pageVars>>

LoadMessagesApply(t) ==
  /\ t.pc = "resp"
  /\ messagesMap' = ApplyLoad(messagesMap, t.chat, t.data)
  /\ marks' = marks (+) markChatAsRead(t.chat, t.data, "load")
  /\ loads' = BagDel(loads, t)
  /\ history' = IF t.chat # selectedChatId THEN history \cup {"late load"} ELSE history
  /\ UNCHANGED <<user, chats, selectedChatId, sending, send, nSends,
                 chatLoads, channels, events, serverMsgs, receipts, now, skew, nOps, budget>>
  /\ messagesError' = IF markChatAsRead(t.chat, t.data, "load") = EmptyBag
                      THEN NoError ELSE messagesError
  /\ UNCHANGED <<chatError, nCalls>>
  /\ UNCHANGED <<profVars, pageVars>>

(* a failed markMessagesRead that surfaces in the loadMessages that made   *)
(* the call                                                                *)
ErrorFromMark(err, from, ok) ==
  IF from = "load" THEN (IF ok THEN NoError ELSE "error") ELSE err

(* messagesError after markChatAsRead has returned: loadMessages goes on   *)
(* with setMessagesError(null), line 708; no other caller does anything    *)
ErrorAfterMark(err, from, ok) == IF from = "load" THEN NoError ELSE err

(* markMessagesRead answered (ok) or failed (logged): markChatAsRead       *)
(* lines 615-636                                                           *)
MarkDone(t, ok) ==
  /\ receipts' = IF ok THEN markMessagesRead(Ids(unreadMessages(t.list)), t.timestamp)
                 ELSE receipts
  /\ messagesMap' = WriteBack(messagesMap, t.chat, updatedList(t.list, t.timestamp))
  /\ chats' = MarkChatsRead(chats, t.chat, unreadMessages(t.list), t.timestamp)
  /\ marks' = BagDel(marks, t)
  /\ history' = history \cup (IF t.from = "select" THEN {"opened"} ELSE {})
                        \cup (IF ok THEN {} ELSE {"mark failed"})
  /\ UNCHANGED <<user, selectedChatId, sending, send, nSends, loads, chatLoads,
                 channels, events, serverMsgs, now, skew, nOps, budget>>
  /\ messagesError' = ErrorAfterMark(messagesError, t.from, ok)
  /\ UNCHANGED <<chatError, nCalls>>
  /\ UNCHANGED <<profVars, pageVars>>

(* handleSelectChat, and the effects of the render that follows *)
HandleSelectChat(c) ==
  /\ user # NoUser
  /\ nOps < budget
  /\ HasId(chats, c)
  /\ LET messages == messagesMap[c]
         ls == IF messages = <<>> THEN BagAdd(loads, NewLoad(c)) ELSE loads
     IN  /\ selectedChatId' = c
         /\ marks' = marks (+) markChatAsRead(c, messages, "select")
         /\ IF c # selectedChatId
            THEN /\ SelectionEffects(c, ls)
                 /\ chatLoads' = BagAdd(chatLoads, NewChatLoad(c))
                 /\ chatError' = NoError
            ELSE /\ loads' = ls
                 /\ messagesError' = NoError
                 /\ UNCHANGED <<channels, events, chatLoads, chatError>>
  /\ nOps' = nOps + 1
  /\ UNCHANGED <<user, chats, messagesMap, sending, send, nSends,
                 serverMsgs, receipts, now, skew, budget, history>>
  /\ UNCHANGED nCalls
  /\ UNCHANGED <<profVars, pageVars>>

----------------------------------------------------------------------------
(* Optimistic send pipeline: handleSendMessage *)

(* a provisional entry that is not stamped as read; optimisticMessage     *)
(* must differ from it                                                     *)
UnreadDraft(id, c, body, timestamp) ==
  [id |-> id, chat_id |-> c, sender_id |-> user, body |-> body,
   created_at |-> timestamp, read_at |-> None, optimistic |-> TRUE,
   sendError |-> FALSE]

(* lines 853-865 *)
optimisticMessage(id, c, body, timestamp) ==
  [id |-> id, chat_id |-> c, sender_id |-> user, body |-> body,
   created_at |-> timestamp, read_at |-> timestamp, optimistic |-> TRUE,
   sendError |-> FALSE]

(* lines 866-872 *)
OptimisticInsert(existing, msg) == Append(existing, msg)

(* lines 873-892 *)
ChatsOnSubmit(cs, c, msg) ==
  sortChats(SeqMap(cs, LAMBDA chat :
    IF chat.id = c
    THEN [chat EXCEPT !.lastMessage = LastMessageOf(msg),
                      !.lastMessageReadAt = msg.created_at,
                      !.updatedAt = msg.created_at]
    ELSE chat))

(* a reconciliation that appends the saved row and keeps the entry it    *)
(* stands for; ConfirmList must differ from it                           *)
AppendSaved(existing, optimisticId, savedMessage) ==
  sortMessages(Append(existing, savedMessage))

(* lines 898-911 *)
ConfirmList(existing, optimisticId, savedMessage) ==
  LET replaced == SeqMap(existing, LAMBDA msg :
                    IF msg.id = optimisticId THEN savedMessage ELSE msg)
      hasSaved == HasId(replaced, savedMessage.id)
      nextList == IF hasSaved THEN replaced
                  ELSE Append(SelectSeq(replaced, LAMBDA msg : msg.id # optimisticId),
                              savedMessage)
  IN  sortMessages(nextList)

(* lines 912-925 *)
ChatsOnConfirm(cs, c, saved, timestamp) ==
  sortChats(SeqMap(cs, LAMBDA chat :
    IF chat.id = c
    THEN [chat EXCEPT !.lastMessage = LastMessageOf(saved),
                      !.lastMessageReadAt = timestamp,
                      !.updatedAt = saved.created_at]
    ELSE chat))

(* lines 928-936 *)
FailList(existing, optimisticId) ==
  SeqMap(existing, LAMBDA msg :
    IF msg.id = optimisticId THEN [msg EXCEPT !.sendError = TRUE] ELSE msg)

(* a textarea that takes any text; Typeable must differ from it *)
AnyText(v) == TRUE

(* what the composer's textarea can hold: maxLength, line 1148 *)
Typeable(v) == Len(v) <= maxLength

(* a submit of the composer form.  The form is rendered for a selected     *)
(* conversation only, and textarea and button are disabled while `sending` *)
(* (lines 1142-1154).  Line 849 returns when the text is blank; otherwise  *)
(* the handler runs up to `await sendChatMessage`.                         *)
HandleSendMessage(composerValue) ==
  /\ ~sending
  /\ nOps < budget
  /\ Typeable(composerValue)
  /\ HasId(chats, selectedChatId)
  /\ user # NoUser
  /\ nOps' = nOps + 1
  /\ IF Trim(composerValue) = <<>>
     THEN /\ history' = history \cup {"rejected"}
          /\ UNCHANGED <<now, messagesMap, chats, send, sending, nSends, nCalls>>
     ELSE /\ \E timestamp \in Clock :
               LET trimmed == Trim(composerValue)
                   optimisticId == OptimisticId(nSends + 1)
                   msg == optimisticMessage(optimisticId, selectedChatId, trimmed, timestamp)
               IN  /\ now' = timestamp
                   /\ messagesMap' = [messagesMap EXCEPT
                                        ![selectedChatId] = OptimisticInsert(@, msg)]
                   /\ chats' = ChatsOnSubmit(chats, selectedChatId, msg)
                   /\ send' = [state |-> "pending", chat |-> selectedChatId,
                               optimisticId |-> optimisticId, body |-> trimmed,
                               timestamp |-> timestamp, savedId |-> None, echoed |-> FALSE]
          /\ sending' = TRUE
          /\ nSends' = nSends + 1
          /\ nCalls' = nCalls + 1
          /\ UNCHANGED history
  /\ UNCHANGED <<user, selectedChatId, loads, marks, chatLoads, channels, events,
                 serverMsgs, receipts, skew, budget>>
  /\ UNCHANGED <<chatError, messagesError>>
  /\ UNCHANGED <<profVars, pageVars>>

(* sendChatMessage: the insert is committed by the system of record *)
ServerInsert ==
  /\ send.state = "pending"
  /\ send.savedId = None
  /\ \E t \in Clock :
       LET row == Row(Len(serverMsgs) + 1, send.chat, user, send.body, t + skew)
       IN  /\ now' = t
           /\ serverMsgs' = Append(serverMsgs, row)
           /\ events' = Publish(row)
           /\ send' = [send EXCEPT !.savedId = row.id]
  /\ UNCHANGED <<user, chats, selectedChatId, messagesMap, sending, nSends, loads,
                 marks, chatLoads, channels, receipts, skew, nOps, budget, history>>
  /\ UNCHANGED <<chatError, messagesError, nCalls>>
  /\ UNCHANGED <<profVars, pageVars>>

(* a reconciliation that writes to the conversation that is open when    *)
(* the response arrives; SendResolve must differ from it                 *)
ResolveInOpen ==
  /\ send.state = "pending"
  /\ send.savedId # None
  /\ LET saved == serverMsgs[send.savedId]
         savedMessage == [saved EXCEPT !.read_at = send.timestamp]
     IN  /\ messagesMap' = [messagesMap EXCEPT ![selectedChatId] =
                              ConfirmList(@, send.optimisticId, savedMessage)]
         /\ chats' = ChatsOnConfirm(chats, selectedChatId, saved, send.timestamp)
  /\ send' = [send EXCEPT !.state = "confirmed"]
  /\ sending' = FALSE
  /\ UNCHANGED <<user, selectedChatId, nSends, loads, marks, chatLoads, channels,
                 events, serverMsgs, receipts, now, skew, nOps, budget, history>>
  /\ UNCHANGED <<chatError, messagesError, nCalls>>
  /\ UNCHANGED <<profVars, pageVars>>

(* `await sendChatMessage` returns the saved row: lines 897-925, 939 *)
SendResolve ==
  /\ send.state = "pending"
  /\ send.savedId # None
  /\ LET saved == serverMsgs[send.savedId]
         savedMessage == [saved EXCEPT !.read_at = send.timestamp]
     IN  /\ messagesMap' = [messagesMap EXCEPT ![send.chat] =
                              ConfirmList(@, send.optimisticId, savedMessage)]
         /\ chats' = ChatsOnConfirm(chats, send.chat, saved, send.timestamp)
  /\ send' = [send EXCEPT !.state = "confirmed"]
  /\ sending' = FALSE
  /\ UNCHANGED <<user, selectedChatId, nSends, loads, marks, chatLoads, channels,
                 events, serverMsgs, receipts, now, skew, nOps, budget, history>>
  /\ UNCHANGED <<chatError, messagesError, nCalls>>
  /\ UNCHANGED <<profVars, pageVars>>

(* a catch block that calls sendChatMessage again; SendReject must differ *)
(* from it                                                                 *)
RejectAndRetry ==
  /\ send.state = "pending"
  /\ send.savedId = None
  /\ nCalls = nSends
  /\ nCalls' = nCalls + 1
  /\ UNCHANGED <<user, chats, selectedChatId, messagesMap, sending, send, nSends,
                 loads, marks, chatLoads, channels, events, serverMsgs, receipts,
                 now, skew, nOps, budget, history, chatError, messagesError>>
  /\ UNCHANGED <<profVars, pageVars>>

(* `await sendChatMessage` throws: lines 926-940 *)
SendReject ==
  /\ send.state = "pending"
  /\ send.savedId = None
  /\ messagesMap' = [messagesMap EXCEPT ![send.chat] = FailList(@, send.optimisticId)]
  /\ send' = [send EXCEPT !.state = "failed"]
  /\ sending' = FALSE
  /\ UNCHANGED <<user, chats, selectedChatId, nSends, loads, marks, chatLoads,
                 channels, events, serverMsgs, receipts, now, skew, nOps, budget, history>>
  /\ chatError' = "error"
  /\ UNCHANGED <<messagesError, nCalls>>
  /\ UNCHANGED <<profVars, pageVars>>

(* the counterpart of chat c sends a message from their own page *)
OtherSends(c) ==
  /\ nOps < budget
  /\ user # NoUser
  /\ \E t \in Clock :
       LET row == Row(Len(serverMsgs) + 1, c, OtherOf(c), OtherBody, t + skew)
       IN  /\ now' = t
           /\ serverMsgs' = Append(serverMsgs, row)
           /\ events' = Publish(row)
  /\ nOps' = nOps + 1
  /\ UNCHANGED <<user, chats, selectedChatId, messagesMap, sending, send, nSends,
                 loads, marks, chatLoads, channels, receipts, skew, budget, history>>
  /\ UNCHANGED <<chatError, messagesError, nCalls>>
  /\ UNCHANGED <<profVars, pageVars>>

----------------------------------------------------------------------------
(* Realtime reconciler: the handler given to subscribeToChatMessages *)

(* lines 726-767 *)
ChatsOnEvent(cs, message) ==
  LET lastMessage == LastMessageOf(message)
      next ==
        IF HasId(cs, message.chat_id)
        THEN SeqMap(cs, LAMBDA chat :
               IF chat.id = message.chat_id
               THEN [chat EXCEPT !.updatedAt = message.created_at,
                                 !.lastMessage = lastMessage]
               ELSE chat)
        ELSE Append(cs, [id |-> message.chat_id, buyerId |-> user, sellerId |-> NoUser,
                         updatedAt |-> message.created_at, lastMessage |-> lastMessage,
                         lastMessageReadAt |->
                           IF message.sender_id = user THEN message.created_at ELSE None])
  IN  sortChats(next)

(* lines 779-782 *)
enriched(message) ==
  [message EXCEPT !.read_at = IF message.sender_id = user THEN message.created_at ELSE None]

(* a merge that appends without looking for the identifier; MergeInsert  *)
(* must differ from it                                                   *)
AppendAlways(existing, message) == sortMessages(Append(existing, enriched(message)))

(* lines 783-795: the new window *)
MergeInsert(existing, message) ==
  IF HasId(existing, message.id) THEN existing
  ELSE sortMessages(Append(existing, enriched(message)))

(* lines 783-795: what the updater leaves in nextList when it has run *)
nextListOf(existing, message) ==
  IF HasId(existing, message.id) THEN existing
  ELSE Append(existing, enriched(message))

(* lines 800-809 *)
ChatsOwnEcho(cs, message) ==
  SeqMap(cs, LAMBDA chat :
    IF chat.id = message.chat_id
    THEN [chat EXCEPT !.lastMessageReadAt = message.created_at] ELSE chat)

(* lines 769-776: the DELETE branch.  A key the page never reads          *)
(* (`undefined`) is not kept in the model's messagesMap.                   *)
DeleteFrom(mm, message) ==
  IF message.chat_id \in DOMAIN mm
  THEN [mm EXCEPT ![message.chat_id] = SelectSeq(@, LAMBDA item : item.id # message.id)]
  ELSE mm

(* The handler of the subscription made for conversation payload.channel,  *)
(* the selectedChatId of its closure.  It reads nextList right after       *)
(* setMessagesMap(updater).  React runs an updater either at the call      *)
(* (eagerly) or in the next render; in the second case nextList is still   *)
(* null at line 811 and markChatAsRead falls back to                       *)
(* messagesMapRef.current, the window of the last render.                  *)
RealtimeDeliver(eager) ==
  /\ events # <<>>
  /\ LET payload == Head(events)
         message == payload.new
         cs == ChatsOnEvent(chats, message)
     IN  IF payload.eventType = "DELETE"
         THEN /\ chats' = cs
              /\ messagesMap' = DeleteFrom(messagesMap, message)
              /\ UNCHANGED <<marks, send>>
         ELSE LET existing == messagesMap[message.chat_id]
                  nextList == IF eager THEN nextListOf(existing, message) ELSE existing
              IN  /\ messagesMap' = [messagesMap EXCEPT
                                       ![message.chat_id] = MergeInsert(@, message)]
                  /\ IF message.sender_id = user /\ message.chat_id = payload.channel
                     THEN /\ chats' = ChatsOwnEcho(cs, message)
                          /\ marks' = marks
                     ELSE /\ chats' = cs
                          /\ marks' = IF message.chat_id = payload.channel
                                      THEN marks (+) markChatAsRead(message.chat_id,
                                                                   nextList, "event")
                                      ELSE marks
                  /\ send' = IF send.state = "pending" /\ send.savedId = message.id
                             THEN [send EXCEPT !.echoed = TRUE] ELSE send
  /\ events' = Tail(events)
  /\ UNCHANGED <<user, selectedChatId, sending, nSends, loads, chatLoads, channels,
                 serverMsgs, receipts, now, skew, nOps, budget, history>>
  /\ UNCHANGED <<chatError, messagesError, nCalls>>
  /\ UNCHANGED <<profVars, pageVars>>

----------------------------------------------------------------------------
----------------------------------------------------------------------------
(* Profile cache: ensureProfiles.  The cache holds, per identifier, no     *)
(* entry ("missing"), null ("null") or a profile record ("profile").       *)

(* line 532: !profileCacheRef.current[id] is true of undefined and of null *)
IsMissing(ref, id) == ref[id] # "profile"

missingOf(ref, ids) == {id \in ids : IsMissing(ref, id)}

(* lines 556-558: { ...cache, ...entries } *)
MergeEntries(cache, results) ==
  [id \in DOMAIN cache |-> IF id \in DOMAIN results THEN results[id] ELSE cache[id]]

(* ensureProfiles(ids) up to `await Promise.all`: one GET per missing id *)
EnsureProfiles(ids) ==
  /\ nEnsure < MaxEnsure
  /\ missingOf(profileCacheRef, ids) # {}
  /\ ensures' = BagAdd(ensures,
                   [results |-> [id \in missingOf(profileCacheRef, ids) |-> "pending"]])
  /\ nEnsure' = nEnsure + 1
  /\ UNCHANGED <<profileCacheRef, profileCache>>
  /\ UNCHANGED <<msgVars, pageVars>>

(* One GET /users/:id of call t is answered: with a profile, or with       *)
(* nothing or an error (both give [id, null]).  When it was the last one   *)
(* of the call, Promise.all resolves and lines 556-558 run.                *)
ProfileFetched(t, id, r) ==
  /\ t.results[id] = "pending"
  /\ LET results == [t.results EXCEPT ![id] = r]
     IN  IF \E x \in DOMAIN results : results[x] = "pending"
         THEN /\ ensures' = BagAdd(BagDel(ensures, t), [results |-> results])
              /\ UNCHANGED <<profileCacheRef, profileCache>>
         ELSE /\ ensures' = BagDel(ensures, t)
              /\ profileCacheRef' = MergeEntries(profileCacheRef, results)
              /\ profileCache' = MergeEntries(profileCache, results)
  /\ UNCHANGED nEnsure
  /\ UNCHANGED <<msgVars, pageVars>>

(* GET /users/:id requests in flight for id *)
RECURSIVE PendingIn(_, _)
PendingIn(tasks, id) ==
  IF tasks = {} THEN 0
  ELSE LET t == CHOOSE x \in tasks : TRUE
       IN  (IF id \in DOMAIN t.results /\ t.results[id] = "pending"
            THEN CopiesIn(t, ensures) ELSE 0)
           + PendingIn(tasks \ {t}, id)

fetching(id) == PendingIn(BagToSet(ensures), id)

NextProfiles ==
  \/ \E ids \in (SUBSET ProfileIds) \ {{}} : EnsureProfiles(ids)
  \/ \E t \in BagToSet(ensures) : \E id \in DOMAIN t.results :
       \E r \in {"profile", "null"} : ProfileFetched(t, id, r)

Next ==
  \/ \E t \in BagToSet(chatLoads) : LoadChatsFetch(t)
  \/ \E t \in BagToSet(chatLoads) : LoadChatsFail(t)
  \/ \E t \in BagToSet(loads) : LoadMessagesFail(t)
  \/ \E t \in BagToSet(chatLoads) : LoadChatsApply(t)
  \/ \E t \in BagToSet(chatLoads) : LoadChatsAutoSelect(t)
  \/ \E c \in Chats : HandleSelectChat(c)
  \/ \E t \in BagToSet(loads) : LoadMessagesFetch(t)
  \/ \E t \in BagToSet(loads) : LoadMessagesApply(t)
  \/ \E t \in BagToSet(marks), ok \in BOOLEAN : MarkDone(t, ok)
  \/ \E composerValue \in Inputs : HandleSendMessage(composerValue)
  \/ ServerInsert
  \/ SendResolve
  \/ SendReject
  \/ \E c \in Chats : OtherSends(c)
  \/ \E eager \in BOOLEAN : RealtimeDeliver(eager)

----------------------------------------------------------------------------
(* Changes to rows of chat_messages that exist.  The subscription listens  *)
(* to every event of the table (event: '*', part_004 line 145), so the     *)
(* page is told of updates and deletes made elsewhere.  A realtime payload *)
(* carries the row after the change in `new` and the row before it in      *)
(* `old`; for a DELETE `new` is `{}`.                                      *)

EditedBody == <<"e","d">>

PublishChange(kind, chatId, new, old) ==
  IF chatId \in channels
  THEN Append(events, [eventType |-> kind, new |-> new, old |-> old, channel |-> chatId])
  ELSE events

(* the body of row id is edited *)
OtherEdits(id) ==
  /\ nOps < budget
  /\ user # NoUser
  /\ id \in DOMAIN serverMsgs
  /\ serverMsgs[id].chat_id # NoChat
  /\ serverMsgs[id].body # EditedBody
  /\ LET old == serverMsgs[id]
         new == [old EXCEPT !.body = EditedBody]
     IN  /\ serverMsgs' = [serverMsgs EXCEPT ![id] = new]
         /\ events' = PublishChange("UPDATE", old.chat_id, new, old)
  /\ nOps' = nOps + 1
  /\ UNCHANGED <<user, chats, selectedChatId, messagesMap, sending, send, nSends,
                 loads, marks, chatLoads, channels, receipts, now, skew, budget, history>>
  /\ UNCHANGED <<chatError, messagesError, nCalls>>
  /\ UNCHANGED <<profVars, pageVars>>

(* row id is deleted; its place in the table is kept by a row of no chat,  *)
(* which no fetch returns                                                  *)
OtherDeletes(id) ==
  /\ nOps < budget
  /\ user # NoUser
  /\ id \in DOMAIN serverMsgs
  /\ serverMsgs[id].chat_id # NoChat
  /\ LET old == serverMsgs[id]
     IN  /\ serverMsgs' = [serverMsgs EXCEPT ![id] = [EmptyRow EXCEPT !.id = id]]
         /\ events' = PublishChange("DELETE", old.chat_id, EmptyRow, old)
  /\ nOps' = nOps + 1
  /\ UNCHANGED <<user, chats, selectedChatId, messagesMap, sending, send, nSends,
                 loads, marks, chatLoads, channels, receipts, now, skew, budget, history>>
  /\ UNCHANGED <<chatError, messagesError, nCalls>>
  /\ UNCHANGED <<profVars, pageVars>>

NextEvents ==
  \/ \E t \in BagToSet(chatLoads) : LoadChatsFetch(t)
  \/ \E t \in BagToSet(chatLoads) : LoadChatsApply(t)
  \/ \E t \in BagToSet(chatLoads) : LoadChatsAutoSelect(t)
  \/ \E t \in BagToSet(loads) : LoadMessagesFetch(t)
  \/ \E t \in BagToSet(loads) : LoadMessagesApply(t)
  \/ \E t \in BagToSet(marks), ok \in BOOLEAN : MarkDone(t, ok)
  \/ \E c \in Chats : OtherSends(c)
  \/ \E id \in DOMAIN serverMsgs : OtherEdits(id)
  \/ \E id \in DOMAIN serverMsgs : OtherDeletes(id)
  \/ \E eager \in BOOLEAN : RealtimeDeliver(eager)

----------------------------------------------------------------------------
(* sortChats on its own: the page holds any list of up to three            *)
(* conversations with last activity in 1..MaxStamp, in any order, and the  *)
(* projection is applied to it once                                        *)

SortIds == Chats \cup {"c3"}

ChatAt(c, t) ==
  [id |-> c, buyerId |-> "u1", sellerId |-> "u2", updatedAt |-> t,
   lastMessage |-> NoMessage, lastMessageReadAt |-> None]

SortChoices == {ChatAt(c, t) : c \in SortIds, t \in 1..MaxStamp}

SortInputs ==
  UNION { {list \in [1..n -> SortChoices] :
             \A i, j \in 1..n : i # j => list[i].id # list[j].id} : n \in 0..3 }

InitSort ==
  /\ chats \in SortInputs
  /\ messagesMap = [c \in Chats |-> <<>>]
  /\ InitRest(MaxOps)
  /\ OtherPagesIdle

Project ==
  /\ "projected" \notin history
  /\ chats' = decoratedChats
  /\ history' = history \cup {"projected"}
  /\ UNCHANGED <<user, selectedChatId, messagesMap, sending, send, nSends, loads,
                 marks, chatLoads, channels, events, serverMsgs, receipts, now,
                 skew, nOps, budget, chatError, messagesError, nCalls>>
  /\ UNCHANGED <<profVars, pageVars>>

NextSort == Project

----------------------------------------------------------------------------
(* sortMessages on its own: the window of c1 holds any list of up to three *)
(* messages with creation timestamps in 1..MaxStamp, in any order, and is  *)
(* sorted once                                                             *)

MessageChoices == {Row(id, "c1", "u2", OtherBody, t) : id \in 1..3, t \in 1..MaxStamp}

MessageInputs ==
  UNION { {list \in [1..n -> MessageChoices] :
             \A i, j \in 1..n : i # j => list[i].id # list[j].id} : n \in 0..3 }

InitSortMessages ==
  /\ chats = <<>>
  /\ \E list \in MessageInputs :
       messagesMap = [c \in Chats |-> IF c = "c1" THEN list ELSE <<>>]
  /\ InitRest(MaxOps)
  /\ OtherPagesIdle

SortWindow ==
  /\ "sorted" \notin history
  /\ messagesMap' = [messagesMap EXCEPT !["c1"] = sortMessages(@)]
  /\ history' = history \cup {"sorted"}
  /\ UNCHANGED <<user, chats, selectedChatId, sending, send, nSends, loads,
                 marks, chatLoads, channels, events, serverMsgs, receipts, now,
                 skew, nOps, budget, chatError, messagesError, nCalls>>
  /\ UNCHANGED <<profVars, pageVars>>

NextSortMessages == SortWindow

----------------------------------------------------------------------------
Spec     == Init /\ [][Next]_vars
SpecSortMessages == InitSortMessages /\ [][NextSortMessages]_vars
SpecAuth   == InitAuth /\ [][NextAuth]_vars
SpecOrders == InitOrders /\ [][NextOrders]_vars
SpecItem   == InitItem /\ [][NextItem]_vars
SpecSort == InitSort /\ [][NextSort]_vars
SpecEvents == Init /\ [][NextEvents]_vars
SpecEventsDeep == InitDeep /\ [][NextEvents]_vars
SpecDeep == InitDeep /\ [][Next]_vars
SpecProfiles == Init /\ [][NextProfiles]_vars

(* every markMessagesRead call is answered, or fails, in finite time *)
SpecLive ==
  Spec /\ WF_vars(\E t \in BagToSet(marks) : \E ok \in BOOLEAN : MarkDone(t, ok))

----------------------------------------------------------------------------
(* Properties *)

(* identifiers of the rows the system of record can hold *)
MsgIds == 1..(MaxOps + 1)

EntriesWithId(list, id) == Len(SelectSeq(list, LAMBDA msg : msg.id = id))

(* C1: in every reachable state no window holds two entries with the     *)
(* same identifier.                                                      *)
C1_UniqueIds ==
  \A c \in Chats : \A i, j \in DOMAIN messagesMap[c] :
    messagesMap[c][i].id = messagesMap[c][j].id => i = j

(* C2: when the echo of a send was applied before its transport response, *)
(* applying the response leaves exactly one entry for the message: none   *)
(* with the provisional identifier, one with the durable identifier.      *)
C2_EchoBeforeResponse ==
  [][(send.state = "pending" /\ send.echoed /\ send'.state = "confirmed")
       => /\ EntriesWithId(messagesMap'[send.chat], send.optimisticId) = 0
          /\ EntriesWithId(messagesMap'[send.chat], send.savedId) = 1]_vars

(* C3: when the transport call of a send fails, the window then holds     *)
(* exactly one entry for that send, flagged failed, with the trimmed body *)
(* that was submitted, whatever was interleaved with the send.            *)
C3_FailedSendKept ==
  [][(send.state = "pending" /\ send'.state = "failed")
       => LET w == messagesMap'[send.chat]
          IN  /\ EntriesWithId(w, send.optimisticId) = 1
              /\ \A i \in DOMAIN w :
                   w[i].id = send.optimisticId
                     => w[i].sendError /\ w[i].body = send.body]_vars

(* C4: every window is sorted by creation timestamp, ascending, after     *)
(* every operation.                                                       *)
C4_Sorted ==
  \A c \in Chats : \A i, j \in DOMAIN messagesMap[c] :
    i < j => messagesMap[c][i].created_at <= messagesMap[c][j].created_at

(* C5: when the transport call succeeds and no echo was applied before,   *)
(* the window afterwards has no entry with the provisional identifier and *)
(* exactly one with the durable identifier, which is not optimistic.      *)
C5_ConfirmReplaces ==
  [][(send.state = "pending" /\ ~send.echoed /\ send'.state = "confirmed")
       => LET w == messagesMap'[send.chat]
          IN  /\ EntriesWithId(w, send.optimisticId) = 0
              /\ EntriesWithId(w, send.savedId) = 1
              /\ \A i \in DOMAIN w :
                   w[i].id = send.savedId => ~w[i].optimistic /\ ~w[i].sendError]_vars

C5_Witness ==
  /\ send.state = "confirmed"
  /\ ~send.echoed
  /\ HasId(messagesMap[send.chat], send.savedId)
  /\ ~HasId(messagesMap[send.chat], send.optimisticId)

(* C6: applying, while the send is pending and its provisional entry is   *)
(* in the window, the insert event of the viewer's own message (same      *)
(* body, creation timestamp within one tick of the provisional one)       *)
(* leaves that body in the window once.                                   *)
C6_EchoReplacesProvisional ==
  [][(/\ send.state = "pending" /\ ~send.echoed /\ send'.echoed
      /\ HasId(messagesMap[send.chat], send.optimisticId)
      /\ Head(events).new.sender_id = user
      /\ Head(events).new.body = send.body
      /\ Head(events).new.created_at - send.timestamp \in {-1, 0, 1})
       => Len(SelectSeq(messagesMap'[send.chat],
                LAMBDA msg : msg.sender_id = user /\ msg.body = send.body)) = 1]_vars

(* C7: the viewer's own messages are never unread: not in a window, not   *)
(* among the messages a mark-read call selects, not in the receipts it    *)
(* writes, and they never make a conversation show as unread.             *)
C7_OwnNeverUnread ==
  /\ \A c \in Chats : \A i \in DOMAIN messagesMap[c] :
       messagesMap[c][i].sender_id = user => ~isUnread(messagesMap[c][i])
  /\ \A t \in BagToSet(marks) : \A i \in DOMAIN unreadMessages(t.list) :
       unreadMessages(t.list)[i].sender_id # user
  /\ \A id \in DOMAIN receipts :
       receipts[id] # None => id <= Len(serverMsgs) /\ serverMsgs[id].sender_id # user
  /\ \A i \in DOMAIN chats :
       chats[i].lastMessage.sender_id = user => ~hasUnread(chats[i])

(* a mark-read call was made on a list holding a message of the viewer    *)
(* that has no read timestamp                                             *)
C7_Witness ==
  \E t \in BagToSet(marks) : \E i \in DOMAIN t.list :
    t.list[i].sender_id = user /\ t.list[i].read_at = None

(* C8: the result of a bulk load of X that arrives while another          *)
(* conversation Y is open, and the mark-read call that load makes, leave  *)
(* the window of Y as it was.                                             *)
C8_LateLoadKeepsOpenWindow ==
  [][/\ \A t \in BagToSet(loads) :
          (LoadMessagesApply(t) /\ t.chat # selectedChatId)
            => \A y \in Chats \ {t.chat} : messagesMap'[y] = messagesMap[y]
     /\ \A t \in BagToSet(marks) : \A ok \in BOOLEAN :
          (MarkDone(t, ok) /\ t.from = "load" /\ t.chat # selectedChatId)
            => \A y \in Chats \ {t.chat} : messagesMap'[y] = messagesMap[y]]_vars

C8_Witness == "late load" \in history /\ selectedChatId # NoChat

(* the mark-read call made by opening conversation c is in flight and     *)
(* selected message m as unread                                           *)
Opened(c, m) ==
  \E t \in BagToSet(marks) :
    /\ t.from = "select"
    /\ t.chat = c
    /\ \E i \in DOMAIN t.list : t.list[i].id = m /\ isUnread(t.list[i])

(* message m carries a read timestamp in the window of c, and it does not *)
(* flag c as unread in the conversation list                              *)
ShownRead(c, m) ==
  /\ \E i \in DOMAIN messagesMap[c] :
       messagesMap[c][i].id = m /\ messagesMap[c][i].read_at # None
  /\ \A i \in DOMAIN chats :
       (chats[i].id = c /\ chats[i].lastMessage.id = m) => ~hasUnread(chats[i])

(* C9: when the viewer opens a conversation whose window holds an unread  *)
(* message of the other participant, then eventually, once the mark-read  *)
(* call has returned, the message carries a read timestamp and no longer  *)
(* flags the conversation as unread.                                      *)
C9_OpenedIsRead ==
  \A c \in Chats : \A m \in MsgIds : Opened(c, m) ~> (~Opened(c, m) /\ ShownRead(c, m))

C9_Witness ==
  /\ "opened" \in history
  /\ \E c \in Chats : \E m \in MsgIds : ~Opened(c, m) /\ ShownRead(c, m)

(* C10: at most one profile fetch per identifier is in flight at any time *)
C10_OneFetchPerId == \A id \in ProfileIds : fetching(id) <= 1


(* C11: once the fetch of a profile has failed or returned none, null is *)
(* cached for the identifier and no later ensureProfiles call issues a   *)
(* new fetch for it: the number of requests in flight for an identifier  *)
(* cached as null never grows.                                           *)
C11_NullIsNotRefetched ==
  [][\A id \in ProfileIds :
       profileCacheRef[id] = "null" => fetching(id)' <= fetching(id)]_vars

(* a composer value made of white space only (the empty one included) *)
OnlySpaces(v) == \A i \in DOMAIN v : IsSpace(v[i])

(* C12: a submit whose body is empty after trimming is rejected before   *)
(* any I/O: the step of handleSendMessage changes no window, no          *)
(* conversation, no send in progress, no error banner, and reaches       *)
(* neither the transport nor the system of record.                       *)
C12_BlankSubmitRejected ==
  [][\A cv \in Inputs :
       (OnlySpaces(cv) /\ HandleSendMessage(cv)) =>
         UNCHANGED <<messagesMap, chats, selectedChatId, send, sending, nSends,
                     nCalls, serverMsgs, receipts, events, loads, marks, chatLoads,
                     chatError, messagesError>>]_vars

(* a blank submit was made with a conversation open *)
C12_Witness ==
  /\ "rejected" \in history
  /\ selectedChatId # NoChat
  /\ nCalls = 0

C14_MarkFailureIsSilent ==
  [][\A t \in BagToSet(marks) :
       MarkDone(t, FALSE) =>
         /\ chatError' = chatError
         /\ messagesError' \in {messagesError, NoError}
         /\ receipts' = receipts
         /\ Ids(messagesMap'[t.chat]) = Ids(t.list)]_vars

(* a mark-read of the open, loaded window has failed and no error is     *)
(* shown                                                                 *)
C14_Witness ==
  /\ "mark failed" \in history
  /\ selectedChatId # NoChat
  /\ messagesMap[selectedChatId] # <<>>
  /\ chatError = NoError
  /\ messagesError = NoError

(* C15: at every moment at most one message subscription is active, and  *)
(* it is the one of the conversation that is open: on a switch the       *)
(* previous channel is removed before the new one is made.               *)
C15_OneSubscription ==
  /\ Cardinality(channels) <= 1
  /\ channels \subseteq {selectedChatId}

(* the open conversation was switched from c1 to c2 and c2 is subscribed *)
C15_Witness ==
  /\ selectedChatId = "c2"
  /\ channels = {"c2"}
  /\ messagesMap["c1"] # <<>>

(* rows of the system of record written by the viewer *)
OwnRows == SelectSeq(serverMsgs, LAMBDA m : m.sender_id = user)

(* C18: each accepted submit issues exactly one transport send call and  *)
(* no other step issues one: after a transport failure no further call   *)
(* is made until the user submits again, and the system of record never  *)
(* holds more rows of the viewer than calls were made.                   *)
C18_OneCallPerSubmit ==
  [][/\ nCalls' = nCalls + (IF nSends' > nSends THEN 1 ELSE 0)
     /\ nSends' \in {nSends, nSends + 1}
     /\ Len(OwnRows') <= nCalls']_vars

(* a send has failed after its one transport call *)
C18_Witness ==
  /\ send.state = "failed"
  /\ nSends = 1
  /\ nCalls = 1

(* no conversation stands before one with a strictly later last activity *)
ByActivityDescending(list) ==
  \A i, j \in DOMAIN list : i < j => list[i].updatedAt >= list[j].updatedAt

(* C19: in every reachable state the displayed conversation list is      *)
(* ordered by last-activity timestamp descending.                        *)
C19_ListByActivity == ByActivityDescending(decoratedChats)

(* two conversations are displayed and c2, whose last activity has       *)
(* become the later one, stands first                                    *)
C19_Witness ==
  /\ Len(decoratedChats) = 2
  /\ decoratedChats[1].updatedAt > decoratedChats[2].updatedAt
  /\ decoratedChats[1].id = "c2"

(* the order of conversation identifiers *)
IdRank(c) == CASE c = "c1" -> 1 [] c = "c2" -> 2 [] c = "c3" -> 3

Members(list) == {list[i] : i \in DOMAIN list}

(* C20: in a projected list conversations with equal last-activity       *)
(* timestamps stand in the order of their identifiers, so every list     *)
(* holding the same conversations projects to the same order.            *)
C20_TiesById ==
  "projected" \in history =>
    /\ \A i, j \in DOMAIN chats :
         (i < j /\ chats[i].updatedAt = chats[j].updatedAt) =>
           IdRank(chats[i].id) < IdRank(chats[j].id)
    /\ \A list \in SortInputs : Members(list) = Members(chats) => sortChats(list) = chats

(* the entry of window list that has identifier id *)
EntryOf(list, id) == list[CHOOSE i \in DOMAIN list : list[i].id = id]

(* C16: applying a realtime delete event for message m of the open       *)
(* conversation removes the entry with identifier m from that            *)
(* conversation's window and leaves every other entry unchanged.         *)
C16_DeleteRemovesEntry ==
  [][(/\ events # <<>>
      /\ Head(events).eventType = "DELETE"
      /\ Head(events).old.chat_id = selectedChatId
      /\ \E eager \in BOOLEAN : RealtimeDeliver(eager))
     => messagesMap'[selectedChatId] =
          SelectSeq(messagesMap[selectedChatId],
                    LAMBDA item : item.id # Head(events).old.id)]_vars

(* C17: applying a realtime update event for a message already in the    *)
(* window replaces the entry's body with the event's while its           *)
(* identifier and creation timestamp stay the same.                      *)
C17_UpdateReplacesFields ==
  [][(/\ events # <<>>
      /\ Head(events).eventType = "UPDATE"
      /\ HasId(messagesMap[Head(events).new.chat_id], Head(events).new.id)
      /\ \E eager \in BOOLEAN : RealtimeDeliver(eager))
     => LET message == Head(events).new
            before == EntryOf(messagesMap[message.chat_id], message.id)
        IN  /\ EntriesWithId(messagesMap'[message.chat_id], message.id) = 1
            /\ EntryOf(messagesMap'[message.chat_id], message.id) =
                 [before EXCEPT !.body = message.body]]_vars

(* C21: in a sorted window messages with equal creation timestamps stand *)
(* in the order of their identifiers, so every list holding the same     *)
(* messages sorts to the same window.                                    *)
C21_MessageTiesById ==
  "sorted" \in history =>
    LET list == messagesMap["c1"]
    IN  /\ \A i, j \in DOMAIN list :
             (i < j /\ list[i].created_at = list[j].created_at) =>
               list[i].id < list[j].id
        /\ \A other \in MessageInputs :
             Members(other) = Members(list) => sortMessages(other) = list

(* C22: in every state of the auth context the exposed user is null or   *)
(* has an email address that ends in @umass.edu, whatever its case.      *)
C22_OnlyUmassExposed == authUser.present => isUmassEmail(authUser.email)

(* whether the side `role` has confirmed, by the flags of `order` *)
HasConfirmed(order, role) ==
  IF role = "buyer" THEN order.buyer_confirmed ELSE order.seller_confirmed

(* the status table of an order *)
StatusMatches(order) ==
  /\ deriveStatus(order) = "complete" <=>
       (HasConfirmed(order, "buyer") /\ HasConfirmed(order, "seller"))
  /\ deriveStatus(order) = "buyer_confirmed" <=>
       (HasConfirmed(order, "buyer") /\ ~HasConfirmed(order, "seller"))
  /\ deriveStatus(order) = "seller_confirmed" <=>
       (~HasConfirmed(order, "buyer") /\ HasConfirmed(order, "seller"))
  /\ deriveStatus(order) = "pending_meetup" <=>
       (~HasConfirmed(order, "buyer") /\ ~HasConfirmed(order, "seller"))

(* C23: the derived status of an order is complete exactly when both     *)
(* sides have confirmed, whichever confirmed first, buyer_confirmed or   *)
(* seller_confirmed with one confirmation and pending_meetup with none;  *)
(* a side's confirm button is offered, and can be pressed, only while    *)
(* that side has not confirmed.                                          *)
C23_StatusAndButton ==
  [][/\ StatusMatches(orderRow')
     /\ \A role \in Roles :
          /\ StatusMatches(orders'[role])
          /\ ConfirmOffered(role)' <=> ~HasConfirmed(orders'[role], role)
          /\ HandleConfirm(role) => ~HasConfirmed(orders[role], role)]_vars

(* the buyer's dashboard shows the order complete, the seller having     *)
(* confirmed first, and offers the buyer no button                       *)
C23_Witness ==
  /\ deriveStatus(orders["buyer"]) = "complete"
  /\ orders["buyer"].seller_confirmed_at < orders["buyer"].buyer_confirmed_at
  /\ ~ConfirmOffered("buyer")

(* C24: after a successful purchase request the listing's local quantity *)
(* is max(previous quantity - 1, 0), never negative, and the listing is  *)
(* marked sold when the quantity has reached 0; after a failed request   *)
(* quantity and sold flag are unchanged.                                 *)
C24_PurchaseDecrements ==
  [][/\ PurchaseResolve =>
          /\ listing'.quantity = Max(quantity - 1, 0)
          /\ listing'.quantity >= 0
          /\ listing'.sold = (listing.sold \/ listing'.quantity = 0)
     /\ PurchaseReject => listing' = listing
     /\ listing'.present /\ listing'.quantity # NoQuantity => listing'.quantity >= 0]_vars

(* a purchase has succeeded and took the last one: the listing shows     *)
(* quantity 0 and is marked sold                                         *)
C24_Witness ==
  /\ purchase = "done"
  /\ listing.quantity = 0
  /\ listing.sold
  /\ orderError = NoError

(* b is what is left of v when the white space at both ends is taken off *)
IsTrimOf(b, v) ==
  /\ b # <<>>
  /\ ~IsSpace(b[1])
  /\ ~IsSpace(b[Len(b)])
  /\ \E i \in 0..Len(v) :
       /\ i + Len(b) <= Len(v)
       /\ SubSeq(v, i + 1, i + Len(b)) = b
       /\ \A k \in 1..i : IsSpace(v[k])
       /\ \A k \in (i + Len(b) + 1)..Len(v) : IsSpace(v[k])

(* C25: on an accepted submit a provisional entry is put at the end of   *)
(* the open conversation's window before the transport call resolves: it *)
(* has a locally generated identifier, the viewer as sender, the trimmed *)
(* body, the optimistic flag and a read timestamp equal to its creation  *)
(* timestamp.                                                            *)
C25_ProvisionalEntry ==
  [][\A cv \in Inputs :
       (HandleSendMessage(cv) /\ ~OnlySpaces(cv)) =>
         LET before == messagesMap[selectedChatId]
             after == messagesMap'[selectedChatId]
             entry == after[Len(after)]
         IN  /\ after = Append(before, entry)
             /\ IsOptimisticId(entry.id)
             /\ ~HasId(before, entry.id)
             /\ entry.sender_id = user
             /\ IsTrimOf(entry.body, cv)
             /\ entry.optimistic
             /\ entry.read_at = entry.created_at
             /\ entry.read_at # None
             /\ send'.state = "pending"
             /\ serverMsgs' = serverMsgs]_vars

(* a submit was accepted and its transport call has not resolved: the    *)
(* provisional entry stands in the window of the open conversation       *)
C25_Witness ==
  /\ send.state = "pending"
  /\ send.savedId = None
  /\ selectedChatId = send.chat
  /\ \E i \in DOMAIN messagesMap[send.chat] :
       /\ messagesMap[send.chat][i].id = send.optimisticId
       /\ messagesMap[send.chat][i].optimistic

(* C26: once a message has been accepted for sending, every later state  *)
(* has an entry carrying its body in the window of the conversation it   *)
(* was sent in: provisional, failed or durable.                          *)
C26_SentBodyStays ==
  send.state # "none" =>
    \E i \in DOMAIN messagesMap[send.chat] :
      /\ messagesMap[send.chat][i].body = send.body
      /\ messagesMap[send.chat][i].sender_id = user

(* nothing is in flight: no load, no mark-read call, no queued event, no *)
(* send awaiting its response                                            *)
Quiet ==
  /\ loads = EmptyBag
  /\ chatLoads = EmptyBag
  /\ marks = EmptyBag
  /\ events = <<>>
  /\ send.state # "pending"

(* entry i of window w is a newest one *)
IsNewest(w, i) == \A j \in DOMAIN w : w[j].created_at <= w[i].created_at

(* C27: whenever a conversation's window is loaded and nothing is in     *)
(* flight, the cached last message of its conversation list entry is the *)
(* newest entry of the window and the entry's last-activity timestamp is *)
(* that entry's creation timestamp.                                      *)
C27_LastMessageIsNewest ==
  Quiet =>
    \A k \in DOMAIN chats :
      (chats[k].id \in Chats /\ messagesMap[chats[k].id] # <<>>) =>
        LET w == messagesMap[chats[k].id]
        IN  \E i \in DOMAIN w :
              /\ IsNewest(w, i)
              /\ chats[k].lastMessage.id = w[i].id
              /\ chats[k].lastMessage.body = w[i].body
              /\ chats[k].lastMessage.created_at = w[i].created_at
              /\ chats[k].updatedAt = w[i].created_at

(* C28: the result of a bulk load that arrives after the open            *)
(* conversation has changed is discarded: applying it changes no window  *)
(* and no read state, and starts no mark-read call.                      *)
C28_LateLoadDiscarded ==
  [][\A t \in BagToSet(loads) :
       (LoadMessagesApply(t) /\ t.chat # selectedChatId)
         => /\ messagesMap' = messagesMap
            /\ marks' = marks
            /\ receipts' = receipts
            /\ chats' = chats]_vars

(* the event at the head of the queue is an insert into the open         *)
(* conversation, sent by the other participant and not yet in the window *)
IncomingInsert ==
  /\ events # <<>>
  /\ Head(events).eventType = "INSERT"
  /\ Head(events).new.sender_id # user
  /\ Head(events).new.chat_id = Head(events).channel
  /\ Head(events).channel = selectedChatId
  /\ ~HasId(messagesMap[selectedChatId], Head(events).new.id)

(* a mark-read call in flight in bag ms selects message id of chat c *)
Covered(ms, c, id) ==
  \E t \in BagToSet(ms) : t.chat = c /\ id \in Ids(unreadMessages(t.list))

(* C29: when an insert event of the other participant for the open      *)
(* conversation is applied, a mark-read request covering the inserted    *)
(* message is issued (and its completion stamps the message as read).    *)
C29_InsertIsMarked ==
  [][\A eager \in BOOLEAN :
       (IncomingInsert /\ RealtimeDeliver(eager))
         => Covered(marks', selectedChatId, Head(events).new.id)]_vars

(* the identifiers a mark-read call hands to markMessagesRead, lines     *)
(* 608-611                                                               *)
Requested(t) == Ids(unreadMessages(t.list))

(* C30: every mark-read request holds only identifiers of stored         *)
(* messages of the other participant that carry no read timestamp in the *)
(* list the request was made from; never a provisional identifier, never *)
(* a message of the viewer.                                              *)
C30_MarkRequestIds ==
  \A t \in BagToSet(marks) : \A id \in Requested(t) :
    /\ ~IsOptimisticId(id)
    /\ id \in DOMAIN serverMsgs
    /\ serverMsgs[id].sender_id # user
    /\ \A i \in DOMAIN t.list :
         t.list[i].id = id =>
           /\ t.list[i].sender_id # user
           /\ t.list[i].read_at = None
           /\ ~t.list[i].optimistic

(* a request is in flight that was made from a list holding a           *)
(* provisional entry of the viewer next to an unread message             *)
C30_Witness ==
  \E t \in BagToSet(marks) :
    /\ Requested(t) # {}
    /\ \E i \in DOMAIN t.list : t.list[i].optimistic /\ IsOptimisticId(t.list[i].id)

(* the event at the head of the queue is an insert of a message whose    *)
(* identifier the window of its conversation already holds               *)
KnownInsert ==
  /\ events # <<>>
  /\ Head(events).eventType = "INSERT"
  /\ HasId(messagesMap[Head(events).new.chat_id], Head(events).new.id)

(* C31: applying an insert event for a message the window already holds  *)
(* (from an earlier delivery, a bulk load or a confirmed send) leaves    *)
(* every window as it was.                                               *)
C31_InsertIdempotent ==
  [][\A eager \in BOOLEAN :
       (KnownInsert /\ RealtimeDeliver(eager)) => messagesMap' = messagesMap]_vars

(* the echo of a confirmed send is about to be applied to a window that  *)
(* holds the saved message                                               *)
C31_Witness ==
  /\ KnownInsert
  /\ send.state = "confirmed"
  /\ Head(events).new.id = send.savedId

(* the provisional entries of window w that await their outcome *)
AwaitingOutcome(w) == SelectSeq(w, LAMBDA msg : msg.optimistic /\ ~msg.sendError)

(* Sum over the conversations in S of the number of pending entries *)
RECURSIVE PendingCount(_)
PendingCount(S) ==
  IF S = {} THEN 0
  ELSE LET c == CHOOSE x \in S : TRUE
       IN  Len(AwaitingOutcome(messagesMap[c])) + PendingCount(S \ {c})

(* C32: the sending flag is set exactly while a send awaits its outcome, *)
(* at most one provisional entry is pending at any time, and once the    *)
(* outcome has been applied no entry is pending.                         *)
C32_OneSendOutstanding ==
  /\ sending <=> send.state = "pending"
  /\ PendingCount(Chats) <= 1
  /\ ~sending => PendingCount(Chats) = 0

(* C33: the outcome of a send that arrives after the open conversation   *)
(* has been switched changes no window but that of the conversation the  *)
(* message was submitted in, and marks the provisional entry there.      *)
C33_OutcomeGoesToOrigin ==
  [][(send.state = "pending" /\ send'.state # "pending" /\ send.chat # selectedChatId)
       => /\ \A y \in Chats \ {send.chat} : messagesMap'[y] = messagesMap[y]
          /\ messagesMap'[send.chat] =
               IF send'.state = "confirmed"
               THEN ConfirmList(messagesMap[send.chat], send.optimisticId,
                      [serverMsgs[send.savedId] EXCEPT !.read_at = send.timestamp])
               ELSE FailList(messagesMap[send.chat], send.optimisticId)]_vars

(* the outcome of a send has been applied to a conversation that is not  *)
(* the open one                                                          *)
C33_Witness ==
  /\ send.state \in {"confirmed", "failed"}
  /\ selectedChatId # NoChat
  /\ send.chat # selectedChatId
  /\ \E i \in DOMAIN messagesMap[send.chat] :
       messagesMap[send.chat][i].sender_id = user

(* C34: a mark-read completion changes only read timestamps: the window  *)
(* after it holds the same entries in the same order as just before it.  *)
C34_MarkKeepsEntries ==
  [][\A t \in BagToSet(marks) : \A ok \in BOOLEAN :
       MarkDone(t, ok) =>
         /\ Ids(messagesMap'[t.chat]) = Ids(messagesMap[t.chat])
         /\ Len(messagesMap'[t.chat]) = Len(messagesMap[t.chat])
         /\ \A i \in DOMAIN messagesMap[t.chat] :
              messagesMap'[t.chat][i].id = messagesMap[t.chat][i].id]_vars

(* message id carries a read timestamp in window w *)
ReadIn(w, id) == \E i \in DOMAIN w : w[i].id = id /\ w[i].read_at # None

(* message id is in window w without a read timestamp *)
UnreadIn(w, id) == \E i \in DOMAIN w : w[i].id = id /\ w[i].read_at = None

(* C35: read state is monotonic: no step leaves a message that carried a *)
(* read timestamp in its window in that window without one.              *)
C35_ReadIsMonotonic ==
  [][\A c \in Chats : \A i \in DOMAIN messagesMap[c] :
       ReadIn(messagesMap[c], messagesMap[c][i].id)
         => ~UnreadIn(messagesMap'[c], messagesMap[c][i].id)]_vars

(* C36: a profile record in the cache is never replaced by a null entry, *)
(* neither in the cache the page renders from nor in the one             *)
(* ensureProfiles reads.                                                 *)
C36_ProfileIsKept ==
  [][\A id \in ProfileIds :
       /\ profileCache[id] = "profile" => profileCache'[id] = "profile"
       /\ profileCacheRef[id] = "profile" => profileCacheRef'[id] = "profile"]_vars

----------------------------------------------------------------------------
(* Sign-out while MessagesPage is mounted.  useAuth() now returns no      *)
(* user (authUser); `user` stays the user the callbacks still in flight   *)
(* were created with, because loadChats, loadMessages, markChatAsRead and *)
(* handleSendMessage read it from their closure.                          *)

(* the render with user = null and authLoading = false: the effect of     *)
(* lines 676-684 clears the page, and the cleanup of the subscription     *)
(* effect (lines 815-817) removes the channel                             *)
SignedOut ==
  /\ authUser.present
  /\ authUser' = NoSession
  /\ supabaseSession' = NoSession
  /\ chats' = <<>>
  /\ selectedChatId' = NoChat
  /\ messagesMap' = [c \in Chats |-> <<>>]
  /\ channels' = unsubscribeFromChannel(channels, selectedChatId)
  /\ events' = <<>>
  /\ UNCHANGED <<user, sending, send, nSends, loads, marks, chatLoads, serverMsgs,
                 receipts, now, skew, nOps, budget, history>>
  /\ UNCHANGED <<chatError, messagesError, nCalls>>
  /\ UNCHANGED <<authLoading, authEvents, authTasks, nSignIns>>
  /\ UNCHANGED <<profVars, orderVars, itemVars>>

(* loadChats lines 660-667 when it resumes after the sign-out: the        *)
(* selection is set, and no effect follows because the subscription       *)
(* effect and the loadChats effect return when there is no user           *)
LateAutoSelect(t) ==
  /\ ~authUser.present
  /\ t.pc = "ensure"
  /\ selectedChatId' = IF t.data # <<>> THEN t.data[1].id ELSE selectedChatId
  /\ chatLoads' = BagDel(chatLoads, t)
  /\ UNCHANGED <<user, chats, messagesMap, sending, send, nSends, loads, marks,
                 channels, events, serverMsgs, receipts, now, skew, nOps, budget, history>>
  /\ UNCHANGED <<chatError, messagesError, nCalls>>
  /\ UNCHANGED <<profVars, pageVars>>

(* the calls started before the sign-out go on and resolve *)
LateOutcome ==
  /\ ~authUser.present
  /\ \/ \E t \in BagToSet(chatLoads) : LoadChatsFetch(t)
     \/ \E t \in BagToSet(chatLoads) : LoadChatsFail(t)
     \/ \E t \in BagToSet(chatLoads) : LoadChatsApply(t)
     \/ \E t \in BagToSet(loads) : LoadMessagesFetch(t)
     \/ \E t \in BagToSet(loads) : LoadMessagesFail(t)
     \/ \E t \in BagToSet(loads) : LoadMessagesApply(t)
     \/ \E t \in BagToSet(marks), ok \in BOOLEAN : MarkDone(t, ok)
     \/ ServerInsert
     \/ SendResolve
     \/ SendReject

SignedIn == authUser.present /\ Next

NextSignOut ==
  \/ SignedIn
  \/ SignedOut
  \/ LateOutcome
  \/ \E t \in BagToSet(chatLoads) : LateAutoSelect(t)

SpecSignOut == Init /\ [][NextSignOut]_vars

(* C37: while no user is signed in, the conversation list, the selection *)
(* and every message window are empty, also when calls started before    *)
(* the sign-out resolve afterwards.                                      *)
C37_SignedOutIsEmpty ==
  ~authUser.present =>
    /\ chats = <<>>
    /\ selectedChatId = NoChat
    /\ \A c \in Chats : messagesMap[c] = <<>>

(* C38: the conversation list holds at most one entry per conversation   *)
(* identifier, and every entry is a conversation the listing returns for *)
(* the viewer.                                                           *)
C38_ListMatchesListing ==
  /\ \A i, j \in DOMAIN chats : chats[i].id = chats[j].id => i = j
  /\ \A i \in DOMAIN chats : \E k \in DOMAIN fetchChats : fetchChats[k].id = chats[i].id

============================================================================
